---- MODULE Spec2Model ----
(***************************************************************************)
(* ChatAnalyzer (src/ChatAnalyzer/index.js): an Express service with three *)
(* POST handlers.  /upload stores an image (multer), runs OCR on it        *)
(* (tesseract.js worker) and asks an LLM for a JSON analysis; /chat and    *)
(* /ask answer a question about an analysis context the caller resends.   *)
(*                                                                         *)
(* Each handler is an async function: it runs from one await to the next   *)
(* without interruption, and other requests run in between.  One action    *)
(* of the model is one such run.  The collaborators the handlers await     *)
(* (file access, createWorker, recognize, terminate, the chat-completion   *)
(* call) resolve or reject; both outcomes are drawn with \E.               *)
(***************************************************************************)
EXTENDS Integers, Sequences, FiniteSets, TLC

(***************************************************************************)
(* JavaScript values.  A JS string is held either as a TLA+ string (fixed  *)
(* messages) or as a sequence of characters (texts the code trims, cuts    *)
(* or parses).                                                             *)
(***************************************************************************)
Undefined == [t |-> "undefined"]
Null == [t |-> "null"]
Str(s) == [t |-> "string", s |-> s]
Text(cs) == [t |-> "string", cs |-> cs]
Num(n) == [t |-> "number", n |-> n]
Bool(b) == [t |-> "boolean", b |-> b]
Arr(a) == [t |-> "array", a |-> a]
Obj(o) == [t |-> "object", o |-> o]
EmptyObject == [k \in {} |-> Undefined]

IsText(v) == v.t = "string" /\ "cs" \in DOMAIN v

\* ToBoolean: what `!x`, `x && y`, `x || y` and `if (x)` test.
Truthy(v) ==
  CASE v.t = "undefined" -> FALSE
    [] v.t = "null" -> FALSE
    [] v.t = "boolean" -> v.b
    [] v.t = "number" -> v.n # 0
    [] v.t = "string" -> IF IsText(v) THEN v.cs # <<>> ELSE v.s # ""
    [] OTHER -> TRUE

\* Reading a property of undefined or null throws a TypeError.
CanRead(v) == v.t \notin {"undefined", "null"}

\* v.k for a value whose properties can be read: a missing property, and any
\* of the names used here on a string, number, boolean or array, is undefined.
Get(v, k) ==
  IF v.t = "object" /\ k \in DOMAIN v.o THEN v.o[k] ELSE Undefined

Digits == <<"0", "1", "2", "3", "4", "5", "6", "7", "8", "9">>
IsDigit(c) == \E d \in 1..Len(Digits) : Digits[d] = c
DigitVal(c) == (CHOOSE d \in 1..Len(Digits) : Digits[d] = c) - 1

\* Number -> decimal string, as `Date.now() + '-'` converts the number.
RECURSIVE ToDigits(_)
ToDigits(n) ==
  IF n < 10 THEN <<Digits[n + 1]>> ELSE ToDigits(n \div 10) \o <<Digits[(n % 10) + 1]>>

WhiteSpace == {" ", "\n", "\t"}

RECURSIVE TrimStart(_)
TrimStart(cs) ==
  IF cs # <<>> /\ Head(cs) \in WhiteSpace THEN TrimStart(Tail(cs)) ELSE cs

RECURSIVE TrimEnd(_)
TrimEnd(cs) ==
  IF cs # <<>> /\ cs[Len(cs)] \in WhiteSpace
  THEN TrimEnd(SubSeq(cs, 1, Len(cs) - 1))
  ELSE cs

\* String.prototype.trim
Trim(cs) == TrimEnd(TrimStart(cs))

\* cs.trim().split(/\s+/).length: the whitespace-delimited tokens; splitting
\* the empty string gives one (empty) piece.
WordCount(cs) ==
  LET w == Trim(cs)
  IN IF w = <<>> THEN 1
     ELSE Cardinality({i \in 1..Len(w) :
                         /\ w[i] \notin WhiteSpace
                         /\ (i = 1 \/ w[i - 1] \in WhiteSpace)})

\* String.prototype.substring(0, n)
Substring0(cs, n) == SubSeq(cs, 1, IF Len(cs) < n THEN Len(cs) ELSE n)

(***************************************************************************)
(* JSON.parse on the JSON subset the model's texts are written in:         *)
(* objects, arrays, strings without escapes, non-negative integers, null,  *)
(* true, false, and whitespace.  A result is [ok, next, val]: whether a    *)
(* value was read, the index after it, and the value.                      *)
(***************************************************************************)
ParseFail == [ok |-> FALSE, next |-> 0, val |-> Undefined]
ParseOk(n, v) == [ok |-> TRUE, next |-> n, val |-> v]

RECURSIVE SkipWs(_, _)
SkipWs(s, i) ==
  IF i <= Len(s) /\ s[i] \in WhiteSpace THEN SkipWs(s, i + 1) ELSE i

RECURSIVE JoinChars(_)
JoinChars(cs) == IF cs = <<>> THEN "" ELSE Head(cs) \o JoinChars(Tail(cs))

\* s[i] is the opening quote.
ParseString(s, i) ==
  LET closing == {j \in (i + 1)..Len(s) : s[j] = "\""}
  IN IF closing = {} THEN ParseFail
     ELSE LET j == CHOOSE c \in closing : \A d \in closing : c <= d
              body == SubSeq(s, i + 1, j - 1)
          IN IF \E k \in 1..Len(body) : body[k] \in {"\n", "\t"}
             THEN ParseFail
             ELSE ParseOk(j + 1, Text(body))

RECURSIVE ScanDigits(_, _, _)
ScanDigits(s, i, acc) ==
  IF i <= Len(s) /\ IsDigit(s[i])
  THEN ScanDigits(s, i + 1, (10 * acc) + DigitVal(s[i]))
  ELSE ParseOk(i, Num(acc))

\* s[i] is a digit; a leading zero ends the number.
ParseNumber(s, i) ==
  IF s[i] = "0" THEN ParseOk(i + 1, Num(0)) ELSE ScanDigits(s, i, 0)

ParseLiteral(s, i, word, v) ==
  IF i + Len(word) - 1 <= Len(s) /\ SubSeq(s, i, i + Len(word) - 1) = word
  THEN ParseOk(i + Len(word), v)
  ELSE ParseFail

RECURSIVE ParseValue(_, _)
RECURSIVE ParseElements(_, _, _)
RECURSIVE ParseMembers(_, _, _)

\* i is the index of the next element; acc the elements read so far.
ParseElements(s, i, acc) ==
  LET e == ParseValue(s, i)
  IN IF ~e.ok THEN ParseFail
     ELSE LET j == SkipWs(s, e.next)
          IN IF j > Len(s) THEN ParseFail
             ELSE IF s[j] = "," THEN ParseElements(s, j + 1, Append(acc, e.val))
             ELSE IF s[j] = "]" THEN ParseOk(j + 1, Arr(Append(acc, e.val)))
             ELSE ParseFail

\* i is the index where the next key must start; acc the members read so far.
\* A repeated key keeps its last value.
ParseMembers(s, i, acc) ==
  LET k == SkipWs(s, i)
  IN IF k > Len(s) \/ s[k] # "\"" THEN ParseFail
     ELSE LET key == ParseString(s, k)
          IN IF ~key.ok THEN ParseFail
             ELSE LET c == SkipWs(s, key.next)
                  IN IF c > Len(s) \/ s[c] # ":" THEN ParseFail
                     ELSE LET v == ParseValue(s, c + 1)
                          IN IF ~v.ok THEN ParseFail
                             ELSE LET j == SkipWs(s, v.next)
                                      members == (JoinChars(key.val.cs) :> v.val) @@ acc
                                  IN IF j > Len(s) THEN ParseFail
                                     ELSE IF s[j] = "," THEN ParseMembers(s, j + 1, members)
                                     ELSE IF s[j] = "}" THEN ParseOk(j + 1, Obj(members))
                                     ELSE ParseFail

ParseValue(s, i0) ==
  LET i == SkipWs(s, i0)
  IN IF i > Len(s) THEN ParseFail
     ELSE CASE s[i] = "{" ->
                 (LET j == SkipWs(s, i + 1)
                  IN IF j <= Len(s) /\ s[j] = "}"
                     THEN ParseOk(j + 1, Obj(EmptyObject))
                     ELSE ParseMembers(s, j, EmptyObject))
            [] s[i] = "[" ->
                 (LET j == SkipWs(s, i + 1)
                  IN IF j <= Len(s) /\ s[j] = "]"
                     THEN ParseOk(j + 1, Arr(<<>>))
                     ELSE ParseElements(s, j, <<>>))
            [] s[i] = "\"" -> ParseString(s, i)
            [] IsDigit(s[i]) -> ParseNumber(s, i)
            [] s[i] = "n" -> ParseLiteral(s, i, <<"n", "u", "l", "l">>, Null)
            [] s[i] = "t" -> ParseLiteral(s, i, <<"t", "r", "u", "e">>, Bool(TRUE))
            [] s[i] = "f" -> ParseLiteral(s, i, <<"f", "a", "l", "s", "e">>, Bool(FALSE))
            [] OTHER -> ParseFail

\* JSON.parse(content): content is coerced to a string first, so null reads
\* as the text "null"; anything after the value but whitespace is an error.
\* [ok |-> FALSE] stands for the SyntaxError thrown.
JSONParse(content) ==
  IF content.t = "null" THEN ParseOk(0, Null)
  ELSE LET r == ParseValue(content.cs, 1)
       IN IF r.ok /\ SkipWs(content.cs, r.next) > Len(content.cs) THEN r ELSE ParseFail

\* JSON.stringify followed by JSON.parse, as res.json and express.json carry a
\* value from one request to the next: a property whose value is undefined is
\* dropped, an undefined array element becomes null.
RECURSIVE JSONRoundTrip(_)
JSONRoundTrip(v) ==
  CASE v.t = "object" ->
         Obj([k \in {j \in DOMAIN v.o : v.o[j].t # "undefined"} |-> JSONRoundTrip(v.o[k])])
    [] v.t = "array" ->
         Arr([i \in 1..Len(v.a) |->
                IF v.a[i].t = "undefined" THEN Null ELSE JSONRoundTrip(v.a[i])])
    [] OTHER -> v

\* The own enumerable properties `{...v}` copies: those of an object, the
\* indexed elements of an array or string, none of null, a number or a boolean.
Spread(v) ==
  CASE v.t = "object" -> v.o
    [] v.t = "array" -> [k \in {Digits[i] : i \in 1..Len(v.a)} |-> v.a[DigitVal(k) + 1]]
    [] v.t = "string" /\ IsText(v) ->
         [k \in {Digits[i] : i \in 1..Len(v.cs)} |-> Text(<<v.cs[DigitVal(k) + 1]>>)]
    [] OTHER -> EmptyObject

\* String.prototype.startsWith
StartsWith(cs, prefix) ==
  Len(cs) >= Len(prefix) /\ SubSeq(cs, 1, Len(prefix)) = prefix

(***************************************************************************)
(* Bounds of the model and constants of the program.                       *)
(***************************************************************************)
\* Date.now() when the service starts, and how many milliseconds pass.
StartTime == 9
MaxTicks == 1
\* Length of the long freeform reply of the LLM (longer than the cut at 500).
LongLen == 501

\* The requests of a run, numbered in order of arrival.  A handler shares with
\* another request's handler only the clock, which it reads, and the uploads
\* directory, which it writes: every property below is about one request or
\* about a pair of them.
Req == {1, 2}

FileSizeLimit == 10 * 1024 * 1024
SubstringLimit == 500

\* new Date().toISOString(): a string.  No code reads a timestamp back, so
\* its text is the same at every clock value.
ISOString(n) == Str("ISO-8601")

\* An Error object: its name and message.
Err(name, message) == [name |-> name, message |-> message]
NoErr == Err("", "")

(***************************************************************************)
(* Inputs: multipart file parts, OCR texts, LLM replies, JSON bodies.      *)
(***************************************************************************)
ImagePng == <<"i", "m", "a", "g", "e", "/", "p", "n", "g">>
TextPlain == <<"t", "e", "x", "t", "/", "p", "l", "a", "i", "n">>
UpperImage == <<"I", "m", "a", "g", "e", "/", "p", "n", "g">>
ImageNoSlash == <<"i", "m", "a", "g", "e">>

NoPart == [present |-> FALSE, mimetype |-> <<>>, originalname |-> <<>>, size |-> 0]
Part(m, n, s) == [present |-> TRUE, mimetype |-> m, originalname |-> n, size |-> s]

\* What the client may send in the field "image".
Parts ==
  {NoPart}
    \cup {Part(ImagePng, n, 1024) : n \in {<<"a">>, <<"b">>}}
    \cup {Part(ImagePng, <<"a">>, FileSizeLimit + 1)}
    \cup {Part(m, <<"a">>, 1024) : m \in {TextPlain, UpperImage, ImageNoSlash}}

\* data.text of worker.recognize
OcrTexts == {<<>>, <<" ", "\n">>, <<"h", "i", " ", "y", "o", "u", "\n">>}

\* Freeform prose: x repeated, closed by a z.
LongProse == [i \in 1..LongLen |-> IF i = LongLen THEN "z" ELSE "x"]

\* completion.choices[0].message.content: a string, or null
LLMContents ==
  {Null,
   Text(<<"{", "}">>),
   Text(<<"{", "\"", "t", "o", "p", "i", "c", "s", "\"", ":", "[", "\"", "a", "\"", "]", "}">>),
   Text(<<"{", "\"", "t", "o", "p", "i", "c", "s", "\"", ":", "\"", "a", "\"", "}">>),
   Text(<<"[", "1", "]">>),
   Text(<<"7">>),
   Text(<<"S", "o", "r", "r", "y">>),
   Text(<<"{", "\"", "a", "\"", ":">>),
   Text(<<>>),
   Text(LongProse)}

Errors ==
  [access |-> Err("Error", "ENOENT: no such file or directory"),
   createWorker |-> Err("Error", "worker failed to start"),
   recognize |-> Err("Error", "Error attempting to read image."),
   terminate |-> Err("Error", "worker already terminated"),
   llm |-> Err("APIConnectionError", "Connection error."),
   parse |-> Err("SyntaxError", "Unexpected token in JSON"),
   type |-> Err("TypeError", "Cannot read properties of undefined")]

VARIABLES now, disk, req
vars == <<now, disk, req>>

NoResponse == [status |-> 0, body |-> Undefined]

Idle ==
  [ep |-> "none", pc |-> "idle", part |-> NoPart, body |-> Undefined, origin |-> 0,
   ms |-> 0, err |-> NoErr, errClass |-> "", file |-> Undefined, worker |-> FALSE,
   text |-> Undefined, content |-> Undefined,
   created |-> 0, recognized |-> 0, terminated |-> 0, llm |-> 0,
   res |-> NoResponse, sent |-> 0, escaped |-> FALSE]

Init ==
  /\ now = StartTime
  /\ disk = [n \in {} |-> 0]
  /\ req = [r \in Req |-> Idle]

\* The next request to arrive takes the lowest free number.
Arrives(r) ==
  /\ req[r].ep = "none"
  /\ \A q \in Req : q < r => req[q].ep # "none"

\* res.status(code).json(body), or res.json(body) with code 200
Send(rq, code, body) ==
  [rq EXCEPT !.res = [status |-> code, body |-> body], !.sent = @ + 1]

Tick ==
  /\ now < StartTime + MaxTicks
  /\ now' = now + 1
  /\ UNCHANGED <<disk, req>>

(***************************************************************************)
(* POST /upload                                                            *)
(***************************************************************************)
ImagePrefix == <<"i", "m", "a", "g", "e", "/">>
UploadsDir == <<"u", "p", "l", "o", "a", "d", "s", "/">>

\* storage.filename without the timestamp.
StoredNameNoTime(t, originalname) == originalname

\* storage.filename: Date.now() + '-' + file.originalname
StoredName(t, originalname) == ToDigits(t) \o <<"-">> \o originalname

\* fileFilter testing for 'image' without the slash.
FileFilterLoose(part) == StartsWith(part.mimetype, <<"i", "m", "a", "g", "e">>)

\* fileFilter: whether the part is accepted
FileFilter(part) == StartsWith(part.mimetype, ImagePrefix)

\* The file multer hands to the callback as req.file.
StoredFile(part, t) ==
  Obj([originalname |-> Text(part.originalname),
       path |-> Text(UploadsDir \o StoredName(t, part.originalname)),
       size |-> Num(part.size)])

\* A request arrives and multer's single('image') reads its body: no part
\* leaves req.file undefined; a part the filter refuses is not written; a
\* part is written under its stored name, and a part over the size limit is
\* then removed again and reported as a MulterError.
UploadRequest(r) ==
  /\ Arrives(r)
  /\ \E part \in Parts :
       LET rq == [req[r] EXCEPT !.ep = "upload", !.pc = "callback", !.part = part]
           name == StoredName(now, part.originalname)
       IN IF ~part.present
          THEN /\ req' = [req EXCEPT ![r] = rq]
               /\ UNCHANGED disk
          ELSE IF ~FileFilter(part)
          THEN /\ req' = [req EXCEPT ![r] =
                            [rq EXCEPT !.errClass = "Error",
                                       !.err = Err("Error", "Only image files are allowed!")]]
               /\ UNCHANGED disk
          ELSE IF part.size > FileSizeLimit
          THEN /\ req' = [req EXCEPT ![r] =
                            [rq EXCEPT !.errClass = "MulterError",
                                       !.err = Err("MulterError", "File too large"),
                                       !.ms = now]]
               /\ disk' = [n \in DOMAIN disk \ {name} |-> disk[n]]
          ELSE /\ req' = [req EXCEPT ![r] =
                            [rq EXCEPT !.file = StoredFile(part, now), !.ms = now]]
               /\ disk' = (name :> r) @@ disk
  /\ UNCHANGED now

ErrorDetails(type, details, t) ==
  Obj([type |-> Str(type), details |-> Str(details), timestamp |-> ISOString(t)])

\* catch (error) of /upload
UploadCatch(rq, error, t) ==
  Send(rq, 500, Obj([status |-> Str("error"),
                     message |-> Str("Error processing image"),
                     error |-> ErrorDetails(error.name, error.message, t)]))

\* finally of /upload: worker.terminate() is called when a worker exists, and
\* the handler awaits it.
UploadFinally(rq) ==
  IF rq.worker
  THEN [rq EXCEPT !.terminated = @ + 1, !.pc = "finally"]
  ELSE [rq EXCEPT !.pc = "done"]

\* The callback given to multer, up to its first await (fs.promises.access).
UploadCallback(r) ==
  /\ req[r].ep = "upload" /\ req[r].pc = "callback"
  /\ LET rq == req[r]
     IN req' = [req EXCEPT ![r] =
          IF rq.errClass = "MulterError"
          THEN [Send(rq, 400, Obj([status |-> Str("error"),
                                   message |-> Str("File upload error"),
                                   error |-> ErrorDetails("MulterError", rq.err.message, now)]))
                  EXCEPT !.pc = "done"]
          ELSE IF rq.errClass # ""
          THEN [Send(rq, 400, Obj([status |-> Str("error"),
                                   message |-> Str(rq.err.message),
                                   error |-> ErrorDetails(rq.err.name, rq.err.message, now)]))
                  EXCEPT !.pc = "done"]
          ELSE IF ~Truthy(rq.file)
          THEN [Send(rq, 400, Obj([status |-> Str("error"),
                                   message |-> Str("No image file provided")]))
                  EXCEPT !.pc = "done"]
          ELSE [rq EXCEPT !.pc = "access"]]
  /\ UNCHANGED <<now, disk>>

\* await fs.promises.access settles; on success createWorker('eng') is called.
AccessDone(r) ==
  /\ req[r].ep = "upload" /\ req[r].pc = "access"
  /\ \E ok \in BOOLEAN :
       req' = [req EXCEPT ![r] =
         IF ok THEN [@ EXCEPT !.pc = "createWorker"]
         ELSE UploadFinally(UploadCatch(@, Errors.access, now))]
  /\ UNCHANGED <<now, disk>>

\* await createWorker settles; on success worker.recognize is called.
CreateWorkerDone(r) ==
  /\ req[r].ep = "upload" /\ req[r].pc = "createWorker"
  /\ \E ok \in BOOLEAN :
       req' = [req EXCEPT ![r] =
         IF ok
         THEN [@ EXCEPT !.worker = TRUE, !.created = @ + 1,
                        !.recognized = @ + 1, !.pc = "recognize"]
         ELSE UploadFinally(UploadCatch(@, Errors.createWorker, now))]
  /\ UNCHANGED <<now, disk>>

\* await worker.recognize settles.  Text that trims to nothing: terminate is
\* called and awaited before the 400 is sent.  Other text: the chat-completion
\* request is issued.
RecognizeDone(r) ==
  /\ req[r].ep = "upload" /\ req[r].pc = "recognize"
  /\ \/ req' = [req EXCEPT ![r] = UploadFinally(UploadCatch(@, Errors.recognize, now))]
     \/ \E text \in OcrTexts :
          req' = [req EXCEPT ![r] =
            IF Trim(text) = <<>>
            THEN [@ EXCEPT !.text = Text(text), !.terminated = @ + 1,
                           !.pc = "terminateEmpty"]
            ELSE [@ EXCEPT !.text = Text(text), !.llm = @ + 1, !.pc = "llm"]]
  /\ UNCHANGED <<now, disk>>

\* The terminate of the empty-text branch settles: the 400 is sent, or the
\* rejection is caught; either way finally runs.
TerminateEmptyDone(r) ==
  /\ req[r].ep = "upload" /\ req[r].pc = "terminateEmpty"
  /\ \E ok \in BOOLEAN :
       req' = [req EXCEPT ![r] =
         IF ok
         THEN UploadFinally(Send(@, 400,
                Obj([status |-> Str("error"),
                     message |-> Str("No text could be extracted from the image")])))
         ELSE UploadFinally(UploadCatch(@, Errors.terminate, now))]
  /\ UNCHANGED <<now, disk>>

\* The body of the 200 with the parsed analysis passed on as it is, neither
\* spread into a new object nor stamped.
UploadSuccessRaw(rq, analysis, t) ==
  Obj([status |-> Str("success"),
       message |-> Str("Image processed successfully"),
       data |-> Obj([file |-> Obj([name |-> Get(rq.file, "originalname"),
                                   path |-> Get(rq.file, "path"),
                                   size |-> Get(rq.file, "size")]),
                     textExtraction |-> Obj([raw |-> rq.text,
                                             wordCount |-> Num(WordCount(rq.text.cs)),
                                             characterCount |-> Num(Len(rq.text.cs))]),
                     analysis |-> analysis])])

\* The body of the 200 of /upload.
UploadSuccess(rq, analysis, t) ==
  Obj([status |-> Str("success"),
       message |-> Str("Image processed successfully"),
       data |-> Obj([file |-> Obj([name |-> Get(rq.file, "originalname"),
                                   path |-> Get(rq.file, "path"),
                                   size |-> Get(rq.file, "size")]),
                     textExtraction |-> Obj([raw |-> rq.text,
                                             wordCount |-> Num(WordCount(rq.text.cs)),
                                             characterCount |-> Num(Len(rq.text.cs))]),
                     analysis |-> Obj(("timestamp" :> ISOString(t)) @@ Spread(analysis))])])

\* A parse that recovers as /ask does: a content that does not parse is
\* answered with a 200 whose analysis is empty.
UploadParseLenient(rq, content, t) ==
  LET parsed == JSONParse(content)
  IN Send(rq, 200, UploadSuccess(rq, IF parsed.ok THEN parsed.val ELSE Obj(EmptyObject), t))

\* JSON.parse of the content and res.json of the result; the SyntaxError of a
\* content that does not parse goes to the catch of the handler.
UploadParse(rq, content, t) ==
  LET parsed == JSONParse(content)
  IN IF parsed.ok
     THEN Send(rq, 200, UploadSuccess(rq, parsed.val, t))
     ELSE UploadCatch(rq, Errors.parse, t)

\* await openai.chat.completions.create settles; the content is parsed and
\* the 200 sent, or the error is caught; then finally runs.
UploadLLMDone(r) ==
  /\ req[r].ep = "upload" /\ req[r].pc = "llm"
  /\ \/ req' = [req EXCEPT ![r] = UploadFinally(UploadCatch(@, Errors.llm, now))]
     \/ \E content \in LLMContents :
          req' = [req EXCEPT ![r] =
            UploadFinally(UploadParse([@ EXCEPT !.content = content], content, now))]
  /\ UNCHANGED <<now, disk>>

\* The terminate awaited in finally settles.  Nothing encloses it: when it
\* rejects, the promise of the async callback rejects with nobody to handle it.
FinallyDone(r) ==
  /\ req[r].ep = "upload" /\ req[r].pc = "finally"
  /\ \E ok \in BOOLEAN :
       req' = [req EXCEPT ![r] = [@ EXCEPT !.pc = "done", !.escaped = ~ok]]
  /\ UNCHANGED <<now, disk>>

Upload(r) ==
  \/ UploadRequest(r)
  \/ UploadCallback(r)
  \/ AccessDone(r)
  \/ CreateWorkerDone(r)
  \/ RecognizeDone(r)
  \/ TerminateEmptyDone(r)
  \/ UploadLLMDone(r)
  \/ FinallyDone(r)

(***************************************************************************)
(* POST /chat and POST /ask                                                *)
(***************************************************************************)
\* JSON bodies: a key that is omitted reads as undefined.
Questions == {Undefined, Text(<<>>), Text(<<"w", "h", "y", "?">>)}

TextExtractionOf(cs) ==
  Obj([raw |-> Text(cs), wordCount |-> Num(WordCount(cs)), characterCount |-> Num(Len(cs))])

Contexts ==
  {Undefined,
   Null,
   Text(<<"c", "t", "x">>),
   Obj(EmptyObject),
   Obj([textExtraction |-> TextExtractionOf(<<"h", "i">>)]),
   Obj([analysis |-> Obj([summary |-> Str("s")])]),
   Obj([textExtraction |-> Null, analysis |-> Obj([summary |-> Str("s")])]),
   Obj([textExtraction |-> Text(<<"h", "i">>), analysis |-> Num(1)]),
   Obj([textExtraction |-> TextExtractionOf(<<"h", "i">>),
        analysis |-> Obj([summary |-> Str("s")])]),
   Obj([textExtraction |-> TextExtractionOf(<<"h", "i">>),
        analysis |-> Obj([summary |-> Str("s"), topics |-> Arr(<<>>)])]),
   Obj([textExtraction |-> TextExtractionOf(<<"h", "i">>),
        analysis |-> Obj([summary |-> Str("s"), topics |-> Text(<<"a">>)])])}

\* req.body after express.json(): the keys the client sent.
MakeBody(q, ctx) ==
  Obj([k \in {j \in {"question", "analysisContext"} :
                (IF j = "question" THEN q ELSE ctx).t # "undefined"}
         |-> IF k = "question" THEN q ELSE ctx])

Bodies == {MakeBody(q, ctx) : q \in Questions, ctx \in Contexts}

\* Whether building the system prompt of /chat throws: it reads
\* textExtraction.raw and analysis.summary, and calls analysis.topics.join.
ChatPromptThrows(ctx) ==
  \/ ~CanRead(Get(ctx, "textExtraction"))
  \/ ~CanRead(Get(ctx, "analysis"))
  \/ Get(Get(ctx, "analysis"), "topics").t # "array"

\* Whether building the system prompt of /ask throws, after the shape check:
\* topics.join is called only on a truthy topics.
AskPromptThrows(ctx) ==
  LET topics == Get(Get(ctx, "analysis"), "topics")
  IN Truthy(topics) /\ topics.t # "array"

\* !question && !analysisContext
FieldsMissingBoth(question, analysisContext) ==
  ~Truthy(question) /\ ~Truthy(analysisContext)

\* !question || !analysisContext
FieldsMissing(question, analysisContext) ==
  ~Truthy(question) \/ ~Truthy(analysisContext)

MissingFields ==
  Obj([status |-> Str("error"),
       message |-> Str("Question and analysis context are required")])

\* catch (error) of /chat
ChatCatch(rq, error) ==
  Send(rq, 500, Obj([status |-> Str("error"),
                     message |-> Str("Error processing chat request"),
                     error |-> Str(error.message)]))

\* The /chat handler up to its await of the chat-completion call.
ChatRequest(r) ==
  /\ Arrives(r)
  /\ \E body \in Bodies :
       LET rq == [req[r] EXCEPT !.ep = "chat", !.body = body]
           question == Get(body, "question")
           analysisContext == Get(body, "analysisContext")
       IN req' = [req EXCEPT ![r] =
            IF FieldsMissing(question, analysisContext)
            THEN [Send(rq, 400, MissingFields) EXCEPT !.pc = "done"]
            ELSE IF ChatPromptThrows(analysisContext)
            THEN [ChatCatch(rq, Errors.type) EXCEPT !.pc = "done"]
            ELSE [rq EXCEPT !.llm = @ + 1, !.pc = "llm"]]
  /\ UNCHANGED <<now, disk>>

\* The chat-completion call of /chat settles.
ChatLLMDone(r) ==
  /\ req[r].ep = "chat" /\ req[r].pc = "llm"
  /\ \/ req' = [req EXCEPT ![r] = [ChatCatch(@, Errors.llm) EXCEPT !.pc = "done"]]
     \/ \E content \in LLMContents :
          req' = [req EXCEPT ![r] =
            [Send([@ EXCEPT !.content = content], 200,
                  Obj([status |-> Str("success"), response |-> content]))
               EXCEPT !.pc = "done"]]
  /\ UNCHANGED <<now, disk>>

Chat(r) == ChatRequest(r) \/ ChatLLMDone(r)

\* catch (error) of /ask
AskCatch(rq, error, t) ==
  Send(rq, 500, Obj([status |-> Str("error"),
                     message |-> Str("Error processing question"),
                     error |-> Obj([type |-> Str(error.name),
                                    message |-> Str(error.message),
                                    timestamp |-> ISOString(t)])]))

\* The /ask handler up to its await of the chat-completion call.
AskHandler(r, body, origin) ==
  LET rq == [req[r] EXCEPT !.ep = "ask", !.body = body, !.origin = origin]
      question == Get(body, "question")
      analysisContext == Get(body, "analysisContext")
  IN req' = [req EXCEPT ![r] =
       IF FieldsMissing(question, analysisContext)
       THEN [Send(rq, 400, MissingFields) EXCEPT !.pc = "done"]
       ELSE IF \/ ~Truthy(Get(analysisContext, "textExtraction"))
               \/ ~Truthy(Get(analysisContext, "analysis"))
       THEN [Send(rq, 400, Obj([status |-> Str("error"),
                                message |-> Str("Invalid analysis context structure")]))
               EXCEPT !.pc = "done"]
       ELSE IF AskPromptThrows(analysisContext)
       THEN [AskCatch(rq, Errors.type, now) EXCEPT !.pc = "done"]
       ELSE [rq EXCEPT !.llm = @ + 1, !.pc = "llm"]]

\* A client sends a question with a context of its own making.
AskRequest(r) ==
  /\ Arrives(r)
  /\ \E body \in Bodies : AskHandler(r, body, 0)
  /\ UNCHANGED <<now, disk>>

\* A client resends the data of the 200 that /upload gave request u, as it
\* received it, with a question.
AskAboutUpload(r) ==
  /\ Arrives(r)
  /\ \E u \in Req :
       /\ req[u].ep = "upload" /\ req[u].res.status = 200
       /\ AskHandler(r, MakeBody(Text(<<"w", "h", "y", "?">>),
                                 Get(JSONRoundTrip(req[u].res.body), "data")), u)
  /\ UNCHANGED <<now, disk>>

AnswerPrefix ==
  <<"I", " ", "c", "o", "u", "l", "d", "n", "'", "t", " ", "f", "o", "r",
    "m", "a", "t", " ", "t", "h", "e", " ", "a", "n", "s", "w", "e", "r",
    " ", "p", "r", "o", "p", "e", "r", "l", "y", ",", " ", "b", "u", "t",
    " ", "h", "e", "r", "e", "'", "s", " ", "t", "h", "e", " ", "r", "a",
    "w", " ", "r", "e", "s", "p", "o", "n", "s", "e", ":", " ">>

Ellipsis == <<".", ".", ".">>

\* The degraded answer sent when the reply does not parse.
Fallback(question, content, t) ==
  Obj([status |-> Str("success"),
       timestamp |-> ISOString(t),
       question |-> question,
       analysis |->
         Obj([answer |-> Text(AnswerPrefix \o Substring0(content.cs, SubstringLimit)
                                \o Ellipsis),
              evidence |-> Arr(<<>>),
              confidence |-> Str("Low"),
              relatedTopics |-> Arr(<<>>),
              suggestions |-> Arr(<<Str("Try asking a more specific question")>>)])])

\* The parse error left to the catch of the handler, as /upload leaves it.
AskParseErrorThrown(rq, content, t) == AskCatch(rq, Errors.parse, t)

\* catch (parseError): the fallback is returned as a success.
AskParseError(rq, content, t) ==
  Send(rq, 200, Fallback(Get(rq.body, "question"), content, t))

\* JSON.parse of the content inside its own try, and the response.
AskParse(rq, content, t) ==
  LET parsed == JSONParse(content)
  IN IF parsed.ok
     THEN Send(rq, 200, Obj([status |-> Str("success"),
                             timestamp |-> ISOString(t),
                             question |-> Get(rq.body, "question"),
                             analysis |-> parsed.val]))
     ELSE AskParseError(rq, content, t)

\* The chat-completion call of /ask settles; the content is parsed, and a
\* content that does not parse is answered with the fallback.
AskLLMDone(r) ==
  /\ req[r].ep = "ask" /\ req[r].pc = "llm"
  /\ \/ req' = [req EXCEPT ![r] = [AskCatch(@, Errors.llm, now) EXCEPT !.pc = "done"]]
     \/ \E content \in LLMContents :
          req' = [req EXCEPT ![r] =
            [AskParse([@ EXCEPT !.content = content], content, now) EXCEPT !.pc = "done"]]
  /\ UNCHANGED <<now, disk>>

Ask(r) == AskRequest(r) \/ AskAboutUpload(r) \/ AskLLMDone(r)

Next == Tick \/ \E r \in Req : Upload(r) \/ Chat(r) \/ Ask(r)
Spec == Init /\ [][Next]_vars
(***************************************************************************)
(* Properties                                                              *)
(***************************************************************************)
IsUpload(r) == req[r].ep = "upload"
Done(r) == req[r].pc = "done"
Status(r) == req[r].res.status
Body(r) == req[r].res.body
Message(r) == Get(Body(r), "message")
\* The chat-completion call of r resolved with a content that JSON.parse rejects.
ReplyDoesNotParse(r) ==
  /\ req[r].content.t # "undefined"
  /\ ~JSONParse(req[r].content).ok
\* recognize resolved for r with a text that is empty once trimmed.
OcrTextEmpty(r) ==
  /\ req[r].text.t # "undefined"
  /\ \A i \in 1..Len(req[r].text.cs) : req[r].text.cs[i] \in {" ", "\n", "\t"}
\* multer accepted and stored the file of r.
Accepted(r) == IsUpload(r) /\ req[r].file.t = "object"
StoredPath(r) == Get(req[r].file, "path")
NoTextMessage == Str("No text could be extracted from the image")

\* C1: once a worker was created for an /upload request, terminate is invoked
\* exactly once on every exit path: never twice while the handler runs, and
\* once when it has finished.
C1_TerminateExactlyOnce ==
  \A r \in Req :
    IsUpload(r) =>
      /\ req[r].terminated <= req[r].created
      /\ (Done(r) => req[r].terminated = req[r].created)

\* C2: in /ask, when the LLM call succeeds and its content does not parse, the
\* response is a 200 with status 'success' whose analysis has confidence
\* "Low", no evidence, no related topics, one suggestion, and an answer that
\* is the prefix, then the first 500 characters of the content (all of it
\* when shorter), then the closing dots.
C2_AskParseFallback ==
  \A r \in Req :
    (req[r].ep = "ask" /\ ReplyDoesNotParse(r)) =>
      LET analysis == Get(Body(r), "analysis")
          raw == req[r].content.cs
          kept == IF Len(raw) > 500 THEN 500 ELSE Len(raw)
      IN /\ Done(r)
         /\ Status(r) = 200
         /\ Get(Body(r), "status") = Str("success")
         /\ Get(analysis, "confidence") = Str("Low")
         /\ Get(analysis, "evidence") = Arr(<<>>)
         /\ Get(analysis, "relatedTopics") = Arr(<<>>)
         /\ Get(analysis, "suggestions").t = "array"
         /\ Len(Get(analysis, "suggestions").a) = 1
         /\ Get(analysis, "answer") =
              Text(AnswerPrefix \o SubSeq(raw, 1, kept) \o <<".", ".", ".">>)

\* Witness of C2: a reply longer than 500 characters that does not parse was
\* answered with a 200, and the answer holds 500 characters of it, without
\* its last one.
C2_Witness ==
  \E r \in Req :
    /\ req[r].ep = "ask" /\ ReplyDoesNotParse(r) /\ Done(r)
    /\ Len(req[r].content.cs) > 500
    /\ Status(r) = 200
    /\ LET answer == Get(Get(Body(r), "analysis"), "answer").cs
       IN /\ Len(answer) = Len(AnswerPrefix) + 500 + 3
          /\ req[r].content.cs[Len(req[r].content.cs)] = "z"
          /\ \A i \in 1..Len(answer) : answer[i] # "z"

\* C3: an /upload whose OCR text is empty or whitespace-only is answered 400
\* with "No text could be extracted from the image" and issues no LLM request,
\* whatever the outcome of releasing the worker.
C3_EmptyTextIs400 ==
  \A r \in Req :
    (IsUpload(r) /\ OcrTextEmpty(r)) =>
      /\ req[r].llm = 0
      /\ Status(r) \in {0, 400}
      /\ (Done(r) => Status(r) = 400 /\ Message(r) = NoTextMessage)

\* C4: in /upload a content of the LLM that does not parse is answered with a
\* 500 whose status is 'error' and which carries no data (no textExtraction,
\* no analysis); in /ask the same content is answered with a 200.
C4_UploadParseFailureIs500 ==
  \A r \in Req :
    ReplyDoesNotParse(r) =>
      /\ IsUpload(r) =>
           /\ Status(r) = 500
           /\ Get(Body(r), "status") = Str("error")
           /\ DOMAIN Body(r).o \cap {"data", "textExtraction", "analysis"} = {}
      /\ req[r].ep = "ask" => Status(r) = 200

\* Witness of C4: the same unparseable content was answered 500 by /upload
\* and 200 by /ask.
C4_Witness ==
  \E u, a \in Req :
    /\ IsUpload(u) /\ ReplyDoesNotParse(u) /\ Done(u) /\ Status(u) = 500
    /\ req[a].ep = "ask" /\ ReplyDoesNotParse(a) /\ Done(a) /\ Status(a) = 200
    /\ req[a].content = req[u].content

\* The part of r has a MIME type that does not start with "image/".
NotAnImage(r) ==
  LET m == req[r].part.mimetype
  IN /\ IsUpload(r) /\ req[r].part.present
     /\ ~(Len(m) >= 6 /\ SubSeq(m, 1, 6) = <<"i", "m", "a", "g", "e", "/">>)

\* C5: an /upload whose file has a MIME type not starting with "image/" is
\* answered 400; no file of that request is in the uploads directory, and
\* neither the OCR engine nor the LLM is invoked for it.
C5_NonImageRejected ==
  \A r \in Req :
    NotAnImage(r) =>
      /\ Status(r) \in {0, 400}
      /\ (Done(r) => Status(r) = 400)
      /\ req[r].pc \in {"callback", "done"}
      /\ \A n \in DOMAIN disk : disk[n] # r
      /\ req[r].file.t = "undefined"
      /\ req[r].created = 0 /\ req[r].recognized = 0 /\ req[r].llm = 0

\* Witness of C5: a text/plain part and a part typed "image" were refused
\* with a 400.
C5_Witness ==
  \E r, s \in Req :
    /\ NotAnImage(r) /\ Done(r) /\ Status(r) = 400 /\ req[r].part.mimetype = TextPlain
    /\ NotAnImage(s) /\ Done(s) /\ Status(s) = 400 /\ req[s].part.mimetype = ImageNoSlash

\* The body of r omits question or analysisContext.
OmitsField(r) ==
  /\ req[r].ep \in {"chat", "ask"}
  /\ {"question", "analysisContext"} \ DOMAIN req[r].body.o # {}

\* C6: /chat and /ask answer 400 when the body omits question or
\* analysisContext, and issue no LLM request for it.
C6_MissingFieldIs400 ==
  \A r \in Req :
    OmitsField(r) => Done(r) /\ Status(r) = 400 /\ req[r].llm = 0

\* Witness of C6: a /chat without question and an /ask without
\* analysisContext, each otherwise complete, were answered 400.
C6_Witness ==
  \E c, a \in Req :
    /\ req[c].ep = "chat" /\ DOMAIN req[c].body.o = {"analysisContext"}
    /\ Truthy(Get(req[c].body, "analysisContext")) /\ Status(c) = 400
    /\ req[a].ep = "ask" /\ DOMAIN req[a].body.o = {"question"}
    /\ Truthy(Get(req[a].body, "question")) /\ Status(a) = 400

\* C7: the data of a 200 of /upload, resent unmodified as analysisContext to
\* /ask with a non-empty question, passes the field check and the shape
\* check: it is never answered 400.
C7_RoundTripAccepted ==
  \A r \in Req :
    (req[r].ep = "ask" /\ req[r].origin # 0) =>
      /\ Status(r) # 400
      /\ Message(r) \notin {Str("Invalid analysis context structure"),
                            Str("Question and analysis context are required")}
      /\ (Done(r) => Status(r) \in {200, 500})

\* Witness of C7: the data of an upload whose analysis the LLM gave as null
\* was resent to /ask and answered 200.
C7_Witness ==
  \E r \in Req :
    /\ req[r].ep = "ask" /\ req[r].origin # 0 /\ Done(r) /\ Status(r) = 200
    /\ req[req[r].origin].content = Null

\* C8 as stated: the stored names of any two accepted uploads are distinct.
C8_StoredNamesDistinct ==
  \A r, s \in Req :
    (r # s /\ Accepted(r) /\ Accepted(s)) => StoredPath(r) # StoredPath(s)

\* C8, amended: the stored names of two accepted uploads are distinct unless
\* they carry the same original filename and were received in the same
\* millisecond.
C8_StoredNamesDistinctUnlessSame ==
  \A r, s \in Req :
    (/\ r # s /\ Accepted(r) /\ Accepted(s)
     /\ (req[r].part.originalname # req[s].part.originalname \/ req[r].ms # req[s].ms)) =>
      StoredPath(r) # StoredPath(s)

\* Witness of C8: two uploads of the same original filename were accepted in
\* different milliseconds, and both files are in the uploads directory.
C8_Witness ==
  \E r, s \in Req :
    /\ r # s /\ Accepted(r) /\ Accepted(s)
    /\ req[r].part.originalname = req[s].part.originalname
    /\ req[r].ms # req[s].ms
    /\ StoredPath(r) # StoredPath(s)
    /\ Cardinality(DOMAIN disk) = 2

\* A timestamp at the top of the body or in its error object.
CarriesTimestamp(body) ==
  \/ Get(body, "timestamp").t = "string"
  \/ Get(Get(body, "error"), "timestamp").t = "string"

\* C9: every 4xx or 5xx response of /upload, /chat and /ask is a JSON object
\* with a message and a timestamp.
C9_ErrorsCarryTimestamp ==
  \A r \in Req :
    Status(r) >= 400 =>
      /\ Body(r).t = "object"
      /\ Message(r).t = "string"
      /\ CarriesTimestamp(Body(r))

\* C10: no exception or rejection escapes a handler: every failure raised
\* while a request is handled is caught and answered, and a finished request
\* has had exactly one response.
C10_NothingEscapes ==
  \A r \in Req :
    /\ ~req[r].escaped
    /\ (Done(r) => req[r].sent = 1)
====
